---- MODULE Spec2Model ----
(***************************************************************************)
(* A model of footing/toolkit.py: the Toolset / Toolkit data model, the    *)
(* content hash Toolkit.ref, Toolkit.dependency_specs, the default lookup  *)
(* Toolkit.from_default, and the two-tier cache protocol Toolkit.install.  *)
(*                                                                         *)
(* Conventions.                                                            *)
(*  - A Python string is a sequence of one-character strings, so that      *)
(*    startswith, lower, strip and concatenation are computed.             *)
(*  - An Optional value is a sequence of length at most one: << >> is      *)
(*    None, <<v>> is v.  A dict field that is absent, None, "" or [] is    *)
(*    falsy in Python and is the empty sequence (or "") here.              *)
(*  - A byte stream is a sequence of tokens: characters, and the words of  *)
(*    a fixed vocabulary (mapping keys, manager and file names).           *)
(***************************************************************************)
EXTENDS Integers, Sequences, FiniteSets, TLC

VARIABLES
    config,             \* footing.util.local_config(): [project, toolkits]
    files,              \* the manifest files in the working directory: name -> lines
    registry,           \* registry id -> (build key -> Optional stored bytes)
    pc,                 \* per install run: the line of install() about to execute
    self,               \* per install run: Optional Toolkit being installed
    lock_build,         \* per install run: Optional Build (toolkit.py:267, 282)
    toolkit_build,      \* per install run: Optional Build (toolkit.py:280)
    tmp_lock,           \* per install run: Optional bytes of the NamedTemporaryFile
    tmpdir,             \* per install run: Optional bytes of <tmpdir>/conda-lock.yml
    tmpdir_open,        \* per install run: TRUE while the TemporaryDirectory exists
    lock_file,          \* per machine: toolkit uri -> Optional bytes of locks_dir/<uri>.yml
    envs,               \* per machine: the conda environments installed (names)
    resolver_calls,     \* per install run: the Resolver invocations, with their outcome
    materializer_calls, \* per install run: the Materializer invocations
    ops,                \* per install run: the registry calls (find / push / copy) made
    entry,              \* per install run: the registries when install() was called
    error,              \* per install run: the exception install() ended with, or ""
    call                \* the last pure-function call and its result

vars == <<config, files, registry, pc, self, lock_build, toolkit_build, tmp_lock,
          tmpdir, tmpdir_open, lock_file, envs, resolver_calls,
          materializer_calls, ops, entry, error, call>>

installVars == <<registry, pc, self, lock_build, toolkit_build, tmp_lock, tmpdir,
                 tmpdir_open, lock_file, envs, resolver_calls,
                 materializer_calls, ops, entry, error>>

pureVars == <<config, files, call>>

-----------------------------------------------------------------------------
(* Generic helpers.                                                        *)

Range(s) == {s[i] : i \in 1..Len(s)}

Min(S) == CHOOSE x \in S : \A y \in S : x <= y

RECURSIVE Concat(_)
\* The concatenation of a sequence of sequences.
Concat(ss) == IF ss = << >> THEN << >> ELSE Head(ss) \o Concat(Tail(ss))

\* The sequences over S of length lo..hi.
SeqsOf(S, lo, hi) == UNION {[1..k -> S] : k \in lo..hi}

StartsWith(s, prefix) ==
    /\ Len(s) >= Len(prefix)
    /\ SubSeq(s, 1, Len(prefix)) = prefix

-----------------------------------------------------------------------------
(* Python strings.                                                         *)

Str_default == <<"d", "e", "f", "a", "u", "l", "t">>
Str_python == <<"p", "y", "t", "h", "o", "n">>
Str_pip == <<"p", "i", "p">>
Str_black == <<"b", "l", "a", "c", "k">>

Upper == <<"A", "B", "C", "D", "E", "F", "G", "H", "I", "J", "K", "L", "M",
           "N", "O", "P", "Q", "R", "S", "T", "U", "V", "W", "X", "Y", "Z">>
LowerOf == <<"a", "b", "c", "d", "e", "f", "g", "h", "i", "j", "k", "l", "m",
             "n", "o", "p", "q", "r", "s", "t", "u", "v", "w", "x", "y", "z">>

\* str.lower() on one character.
LowerChar(c) ==
    IF \E i \in 1..Len(Upper) : Upper[i] = c
    THEN LowerOf[CHOOSE i \in 1..Len(Upper) : Upper[i] = c]
    ELSE c

\* str.lower()
Lower(s) == [i \in 1..Len(s) |-> LowerChar(s[i])]

Whitespace == {" ", "\t", "\n"}

\* str.strip()
Strip(s) ==
    LET keep == {i \in 1..Len(s) : s[i] \notin Whitespace}
    IN  IF keep = {} THEN << >>
        ELSE SubSeq(s, Min(keep), CHOOSE j \in keep : \A k \in keep : k <= j)

-----------------------------------------------------------------------------
(* Toolset (toolkit.py:20-87).                                             *)

Managers == {"conda", "pip"}
ManifestFiles == {"pyproject.toml", "environment.yaml", "environment.yml"}

\* Toolset.__post_init__: TRUE when the constructor raises no ValueError.
ToolsetValid(ts) ==
    /\ ts.manager \in Managers
    /\ ~(ts.tools = << >> /\ ts.file = "")
    /\ (ts.file # "" => ts.file \in ManifestFiles)

\* Toolset.from_def: the fields read from a definition record.
ToolsetFromDef(d) == [manager |-> d.manager, tools |-> d.tools, file |-> d.file]

\* conda_lock's parse_python_requirement(tool, manager, normalize_name=False) on a
\* requirement string: the name is what precedes the first version operator, the
\* version what follows it; the name is kept verbatim.
VersionOps == {"=", "<", ">", "!", "~"}

ParseRequirement(tool, manager) ==
    LET opAt == {i \in 1..Len(tool) : tool[i] \in VersionOps}
        cut == IF opAt = {} THEN Len(tool) + 1 ELSE Min(opAt)
    IN  [name |-> SubSeq(tool, 1, cut - 1),
         manager |-> manager,
         version |-> SubSeq(tool, cut, Len(tool)),
         conda_channel |-> ""]

\* A manifest file is a sequence of lines.  A line starting with "#" names a
\* channel, every other line is a requirement (the manifest parsers of conda_lock,
\* toolkit.py:53 and :55, which give each dependency the manager the format implies).
ChannelLines(lines) == SelectSeq(lines, LAMBDA l : l # << >> /\ Head(l) = "#")
RequirementLines(lines) == SelectSeq(lines, LAMBDA l : l = << >> \/ Head(l) # "#")

\* A requirement line of a manifest may qualify the package with a channel,
\* "channel::package": the parser records it as the dependency's conda_channel.
ParseManifestLine(line, manager) ==
    IF Len(line) >= 2 /\ line[2] = "::"
    THEN [ParseRequirement(SubSeq(line, 3, Len(line)), manager)
             EXCEPT !.conda_channel = line[1]]
    ELSE ParseRequirement(line, manager)

ParseManifest(lines, manager) ==
    LET reqs == RequirementLines(lines)
        chans == ChannelLines(lines)
    IN  [channels |-> [i \in 1..Len(chans) |-> Tail(chans[i])],
         dependencies |-> [i \in 1..Len(reqs) |-> ParseManifestLine(reqs[i], manager)],
         platforms |-> << >>,
         sources |-> <<"manifest">>]

\* Two faulty post-processings: one gives every dependency the toolset's manager,
\* python and pip included; the other trims the name without lowercasing it.
NormalizeDependency_KeepManager(dep, manager, channels) ==
    LET name == Strip(Lower(dep.name))
    IN  [dep EXCEPT !.name = name,
                    !.manager = manager,
                    !.conda_channel =
                        IF channels = << >> /\ manager = "conda"
                        THEN (IF dep.conda_channel # "" THEN dep.conda_channel
                              ELSE "conda-forge")
                        ELSE dep.conda_channel]

NormalizeDependency_KeepCase(dep, manager, channels) ==
    LET name == Strip(dep.name)
        mgr == IF name \notin {Str_python, Str_pip} THEN manager ELSE "conda"
    IN  [dep EXCEPT !.name = name,
                    !.manager = mgr,
                    !.conda_channel =
                        IF channels = << >> /\ mgr = "conda"
                        THEN (IF dep.conda_channel # "" THEN dep.conda_channel
                              ELSE "conda-forge")
                        ELSE dep.conda_channel]

\* The post-processing of one dependency (toolkit.py:71-76).
NormalizeDependency(dep, manager, channels) ==
    LET name == Strip(Lower(dep.name))
        mgr == IF name \notin {Str_python, Str_pip} THEN manager ELSE "conda"
    IN  [dep EXCEPT !.name = name,
                    !.manager = mgr,
                    !.conda_channel =
                        IF channels = << >> /\ mgr = "conda"
                        THEN (IF dep.conda_channel # "" THEN dep.conda_channel
                              ELSE "conda-forge")
                        ELSE dep.conda_channel]

\* Toolset.dependency_spec, given the manifest files of the working directory.
DependencySpec(ts, fs) ==
    LET spec == IF ts.file = "pyproject.toml" THEN ParseManifest(fs[ts.file], "pip")
                ELSE IF ts.file \in {"environment.yaml", "environment.yml"}
                     THEN ParseManifest(fs[ts.file], "conda")
                ELSE [channels |-> << >>,
                      dependencies |->
                          [i \in 1..Len(ts.tools) |->
                              ParseRequirement(ts.tools[i], ts.manager)],
                      platforms |-> << >>,
                      sources |-> << >>]
    IN  [spec EXCEPT
            !.dependencies =
                [i \in 1..Len(spec.dependencies) |->
                    NormalizeDependency(spec.dependencies[i], ts.manager, spec.channels)],
            !.sources = << >>]

-----------------------------------------------------------------------------
(* Toolkit (toolkit.py:90-229).                                            *)

DefaultPlatforms == <<"osx-arm64", "osx-64", "linux-64">>

\* The dataclass constructor followed by Toolkit.__post_init__.
ToolkitInit(key, toolsets, base, platforms, def) ==
    [key |-> key,
     toolsets |-> toolsets,
     base |-> base,
     platforms |-> IF platforms # << >> THEN platforms ELSE DefaultPlatforms,
     def |-> def]

RECURSIVE flattened_toolkits_ChildFirst(_)
\* A faulty flattening that lists the toolkit before its ancestors.
flattened_toolkits_ChildFirst(tk) ==
    <<tk>> \o (IF tk.base # << >> THEN flattened_toolkits_ChildFirst(tk.base[1])
              ELSE << >>)

RECURSIVE flattened_toolkits(_)
\* Toolkit.flattened_toolkits
flattened_toolkits(tk) ==
    (IF tk.base # << >> THEN flattened_toolkits(tk.base[1]) ELSE << >>) \o <<tk>>

RECURSIVE flattened_toolsets_OwnFirst(_)
\* A faulty flattening that lists the toolkit's own toolsets before its base's.
flattened_toolsets_OwnFirst(tk) ==
    tk.toolsets \o (IF tk.base # << >> THEN flattened_toolsets_OwnFirst(tk.base[1])
                    ELSE << >>)

RECURSIVE flattened_toolsets(_)
\* Toolkit.flattened_toolsets
flattened_toolsets(tk) ==
    (IF tk.base # << >> THEN flattened_toolsets(tk.base[1]) ELSE << >>) \o tk.toolsets

\* yaml.dump of a list of strings under a mapping key, block style.
YamlStrList(indent, items) ==
    Concat([i \in 1..Len(items) |-> indent \o <<"-", " ">> \o items[i] \o <<"\n">>])

\* yaml.dump of the fields manager / tools / file of a mapping, keys sorted; a
\* field that is absent from the mapping is not written.
YamlToolsetFields(indent, d, keys) ==
    Concat([i \in 1..Len(keys) |->
        IF keys[i] = "file" /\ d.file # ""
            THEN indent \o <<"file", ":", " ", d.file, "\n">>
        ELSE IF keys[i] = "manager" /\ d.manager # ""
            THEN indent \o <<"manager", ":", " ", d.manager, "\n">>
        ELSE IF keys[i] = "tools" /\ d.tools # << >>
            THEN indent \o <<"tools", ":", "\n">> \o YamlStrList(indent, d.tools)
        ELSE << >>])

\* yaml.dump(toolkit._def, Dumper=yaml.SafeDumper): block style, keys sorted
\* (base, file, key, manager, platforms, tools, toolsets).
YamlDump(d) ==
    (IF d.base # << >> THEN <<"base", ":", " ">> \o d.base \o <<"\n">> ELSE << >>)
    \o YamlToolsetFields(<< >>, d, <<"file">>)
    \o <<"key", ":", " ">> \o d.key \o <<"\n">>
    \o YamlToolsetFields(<< >>, d, <<"manager">>)
    \o (IF d.platforms # << >>
        THEN <<"platforms", ":", "\n">>
             \o Concat([i \in 1..Len(d.platforms) |-> <<"-", " ", d.platforms[i], "\n">>])
        ELSE << >>)
    \o YamlToolsetFields(<< >>, d, <<"tools">>)
    \o (IF d.toolsets # << >>
        THEN <<"toolsets", ":", "\n">>
             \o Concat([i \in 1..Len(d.toolsets) |->
                    LET body == YamlToolsetFields(<<" ", " ">>, d.toolsets[i],
                                                  <<"file", "manager", "tools">>)
                    IN  <<"-", " ">> \o SubSeq(body, 3, Len(body))])
        ELSE << >>)

\* The bytes of a manifest file: its lines, each ended by a newline.
FileBytes(lines) == Concat([i \in 1..Len(lines) |-> lines[i] \o <<"\n">>])

\* hashlib.sha256 fed `stream`, then hexdigest(): the digest is taken to be
\* injective, so it is identified by the bytes it was fed.
Sha256Hex(stream) == <<"sha256">> \o stream

\* The byte stream Toolkit.ref feeds the digest (toolkit.py:103-114): the dumped
\* definitions of the flattened toolkits, then the bytes of the manifest files of
\* the flattened toolsets, with nothing between the pieces.
RefStream(tk, fs) ==
    LET tks == flattened_toolkits(tk)
        definitions == [i \in 1..Len(tks) |-> YamlDump(tks[i].def)]
        fileSets == SelectSeq(flattened_toolsets(tk), LAMBDA ts : ts.file # "")
        contents == [i \in 1..Len(fileSets) |-> FileBytes(fs[fileSets[i].file])]
    IN  Concat(definitions) \o Concat(contents)

\* Toolkit.ref
Ref(tk, fs) == Sha256Hex(RefStream(tk, fs))

\* Toolkit.uri
Uri(tk) == <<"t", "o", "o", "l", "k", "i", "t", ":">> \o tk.key

\* Toolkit.conda_env_name
conda_env_name(tk, cfg) ==
    cfg.project.key \o (IF tk.key # Str_default THEN <<"-">> \o tk.key ELSE << >>)

\* The version the synthesized pip dependency is pinned to (toolkit.py:177).
PipVersion == <<"2", "2", ".", "3", ".", "1">>

\* The last element of `deps` named `name`, as an Optional (the loop of
\* toolkit.py:164-168 keeps the last one it sees).
LastNamed(deps, name) ==
    LET at == {i \in 1..Len(deps) : deps[i].name = name}
    IN  IF at = {} THEN << >> ELSE <<deps[CHOOSE i \in at : \A j \in at : j <= i]>>

\* Mutant: the condition of toolkit.py:174 without its `not pip_dep`.
NeedsPip_EvenWithPip(python_dep, pip_dep, has_pip_dependencies) ==
    python_dep # << >> /\ has_pip_dependencies

\* The condition of toolkit.py:174 on what the scan found.
NeedsPip(python_dep, pip_dep, has_pip_dependencies) ==
    python_dep # << >> /\ pip_dep = << >> /\ has_pip_dependencies

\* Toolkit.dependency_specs
dependency_specs(tk, fs) ==
    LET toolsets == flattened_toolsets(tk)
        specs == [i \in 1..Len(toolsets) |-> DependencySpec(toolsets[i], fs)]
        dependencies == Concat([i \in 1..Len(specs) |-> specs[i].dependencies])
        python_dep == LastNamed(dependencies, Str_python)
        pip_dep == LastNamed(dependencies, Str_pip)
        has_pip_dependencies == \E i \in 1..Len(dependencies) :
                                    dependencies[i].manager = "pip"
    IN  IF NeedsPip(python_dep, pip_dep, has_pip_dependencies)
        THEN specs \o <<[channels |-> << >>,
                         dependencies |-> <<[python_dep[1] EXCEPT
                                                !.name = Str_pip,
                                                !.version = PipVersion]>>,
                         platforms |-> << >>,
                         sources |-> << >>]>>
        ELSE specs

\* What a constructor call gives: a value, None, or an exception.
Returned(v) == [tag |-> "ok", val |-> <<v>>, exc |-> ""]
ReturnedNone == [tag |-> "none", val |-> << >>, exc |-> ""]
Raised(e) == [tag |-> "raise", val |-> << >>, exc |-> e]

\* The depth of Python calls from_key -> from_def -> from_key ... the interpreter
\* allows before it raises RecursionError.
RecursionLimit == 4

RECURSIVE from_def(_, _, _)
RECURSIVE from_key(_, _, _)

\* Toolkit.from_def, with `depth` nested calls still allowed.
from_def(cfg, toolkit, depth) ==
    LET defs == IF toolkit.toolsets # << >> THEN toolkit.toolsets
                ELSE <<toolkit>>
        toolsets == [i \in 1..Len(defs) |-> ToolsetFromDef(defs[i])]
        base == IF toolkit.base # << >> THEN from_key(cfg, toolkit.base, depth - 1)
                ELSE ReturnedNone
    IN  IF \E i \in 1..Len(toolsets) : ~ToolsetValid(toolsets[i])
            THEN Raised("ValueError")
        ELSE IF base.tag = "raise" THEN base
        ELSE Returned(ToolkitInit(toolkit.key, toolsets, base.val, << >>, toolkit))

\* Toolkit.from_key
from_key(cfg, key, depth) ==
    LET at == {i \in 1..Len(cfg.toolkits) : cfg.toolkits[i].key = key}
    IN  IF depth <= 0 THEN Raised("RecursionError")
        ELSE IF at = {} THEN ReturnedNone
        ELSE from_def(cfg, cfg.toolkits[Min(at)], depth)

RECURSIVE DefaultLoop(_, _, _, _)
\* The for/else loop of Toolkit.from_default (toolkit.py:213-223) from position i
\* on, with the loop's `key` (an Optional) and `num_public_toolkits`: the key the
\* loop settles on, as an Optional; << >> is the early `return None`.
DefaultLoop(toolkits, i, key, num_public_toolkits) ==
    IF i > Len(toolkits)
        THEN (IF num_public_toolkits # 1 THEN << >> ELSE key)
    ELSE IF toolkits[i].key = Str_default
        THEN <<Str_default>>
    ELSE IF ~StartsWith(toolkits[i].key, <<"_">>)
        THEN DefaultLoop(toolkits, i + 1, <<toolkits[i].key>>, num_public_toolkits + 1)
    ELSE DefaultLoop(toolkits, i + 1, key, num_public_toolkits)


\* Mutant: the loop's else-branch does not test num_public_toolkits, so the last
\* public key wins.
DefaultKey_LastPublicWins(toolkits) ==
    LET at == {i \in 1..Len(toolkits) : toolkits[i].key = Str_default}
        pub == {i \in 1..Len(toolkits) : ~StartsWith(toolkits[i].key, <<"_">>)}
    IN  IF at # {} THEN <<Str_default>>
        ELSE IF pub = {} THEN << >>
        ELSE <<toolkits[CHOOSE i \in pub : \A j \in pub : j <= i].key>>

\* The key Toolkit.from_default settles on (toolkit.py:211-223).
DefaultKey(toolkits) == DefaultLoop(toolkits, 1, << >>, 0)

\* Toolkit.from_default
from_default(cfg) ==
    LET key == DefaultKey(cfg.toolkits)
    IN  IF key = << >> THEN ReturnedNone ELSE from_key(cfg, key[1], RecursionLimit)

\* get(key=None): the empty key is falsy, as None is.
get(cfg, key) ==
    IF key # << >> THEN from_key(cfg, key, RecursionLimit) ELSE from_default(cfg)

-----------------------------------------------------------------------------
(* The collaborators of install: the registries (footing.registry), the    *)
(* Resolver (conda_lock.conda_lock.lock) and the Materializer              *)
(* (conda_lock.conda_lock.install).                                        *)

Procs == {1, 2}

repo_registry == "repo"
LocalIds == <<"local1", "local2">>
local_registry(p) == LocalIds[p]
RegistryIds == {repo_registry} \cup Range(LocalIds)

\* footing.build.Build(kind, name, ref), and the key a registry files it under.
Build(kind, name, ref) == [kind |-> kind, name |-> name, ref |-> ref, path |-> ""]
BuildKey(b) == [kind |-> b.kind, name |-> b.name, ref |-> b.ref]

\* Registry.find(build) -> Build | None: the stored build, its path inside `id`.
RegistryFind(reg, id, b) ==
    IF reg[id][BuildKey(b)] # << >> THEN <<[b EXCEPT !.path = id]>> ELSE << >>

\* Registry.push(build): stores the bytes at build.path under the build's key;
\* pushing again replaces what was stored.
RegistryPush(reg, id, b, bytes) ==
    [reg EXCEPT ![id][BuildKey(b)] = <<bytes>>]

\* Registry.copy(build, to_registry): the stored build, filed in `to` as well.
RegistryCopy(reg, from, to, b) ==
    [reg EXCEPT ![to][BuildKey(b)] = reg[from][BuildKey(b)]]

\* The bytes of the lock the Resolver computes for `specs` on `platforms`
\* (deterministic in its inputs).
ResolverLock(specs, platforms) ==
    Concat([i \in 1..Len(specs) |->
        Concat([j \in 1..Len(specs[i].dependencies) |->
            LET dep == specs[i].dependencies[j]
            IN  dep.name \o <<"@", dep.manager>> \o dep.version \o <<"\n">>])])
    \o platforms

\* How a call of a conda_lock command can end while sys.exit is patched
\* (toolkit.py:241, 286): it succeeds ("ok"); it raises ("raise"); or it fails and
\* ends in sys.exit(code), which the patch turns into a plain return ("exit").
CommandOutcomes == {"ok", "raise", "exit"}

\* How a registry write (push, copy) or a file copy can end.
WriteOutcomes == {"ok", "raise"}

-----------------------------------------------------------------------------
(* The configuration the install runs work on.                             *)

ToolsetDef(manager, tools, file) == [manager |-> manager, tools |-> tools, file |-> file]

ToolkitDef(key, base, toolsets, manager, tools, file, platforms) ==
    [key |-> key, base |-> base, toolsets |-> toolsets, manager |-> manager,
     tools |-> tools, file |-> file, platforms |-> platforms]

NoFiles == [f \in ManifestFiles |-> << >>]

\* project "p"; toolkit "default" (conda: python) and toolkit "a", based on it,
\* with one pip toolset (black).
InstallConfig ==
    [project |-> [key |-> <<"p">>],
     toolkits |-> <<
        ToolkitDef(Str_default, << >>, << >>, "conda", <<Str_python>>, "", << >>),
        ToolkitDef(<<"a">>, Str_default,
                   <<ToolsetDef("pip", <<Str_black>>, "")>>, "", << >>, "", << >>)>>]

InstallKeys == {InstallConfig.toolkits[i].key : i \in 1..Len(InstallConfig.toolkits)}

InstallToolkit(key) == from_key(InstallConfig, key, RecursionLimit).val[1]

LockBuildOf(tk) == Build("conda-lock", conda_env_name(tk, InstallConfig), Ref(tk, NoFiles))
ToolkitBuildOf(tk) == Build("toolkit", conda_env_name(tk, InstallConfig), Ref(tk, NoFiles))

InstallBuildKeys ==
    UNION {{BuildKey(LockBuildOf(InstallToolkit(k))),
            BuildKey(ToolkitBuildOf(InstallToolkit(k)))} : k \in InstallKeys}

\* conda_dir() / "envs" / name
EnvPath(name) == <<"e", "n", "v", "s", "/">> \o name

\* What a registry may hold for a toolkit when an install starts: nothing, or what
\* an earlier install pushed.
StoredLocks(tk) ==
    {<< >>, <<<< >>>>, <<ResolverLock(dependency_specs(tk, NoFiles), tk.platforms)>>}
StoredEnvs(tk) == {<< >>, <<EnvPath(conda_env_name(tk, InstallConfig))>>}

EmptyRegistry == [k \in InstallBuildKeys |-> << >>]

\* A registry holding lock[k] and env[k] for the toolkit keyed k.
RegistryOf(lock, env) ==
    [b \in InstallBuildKeys |->
        LET k == CHOOSE k \in InstallKeys :
                    b \in {BuildKey(LockBuildOf(InstallToolkit(k))),
                           BuildKey(ToolkitBuildOf(InstallToolkit(k)))}
        IN  IF b.kind = "conda-lock" THEN lock[k] ELSE env[k]]

NoCall == [fn |-> "", args |-> << >>, result |-> << >>]

InitPure ==
    /\ config = InstallConfig
    /\ files = NoFiles
    /\ call = NoCall

InitRun ==
    /\ pc = [p \in Procs |-> "idle"]
    /\ self = [p \in Procs |-> << >>]
    /\ lock_build = [p \in Procs |-> << >>]
    /\ toolkit_build = [p \in Procs |-> << >>]
    /\ tmp_lock = [p \in Procs |-> << >>]
    /\ tmpdir = [p \in Procs |-> << >>]
    /\ tmpdir_open = [p \in Procs |-> FALSE]
    /\ lock_file = [p \in Procs |->
                        [u \in {Uri(InstallToolkit(k)) : k \in InstallKeys} |-> << >>]]
    /\ envs = [p \in Procs |-> {}]
    /\ resolver_calls = [p \in Procs |-> << >>]
    /\ materializer_calls = [p \in Procs |-> << >>]
    /\ ops = [p \in Procs |-> << >>]
    /\ error = [p \in Procs |-> ""]

AllStoredLocks == UNION {StoredLocks(InstallToolkit(k)) : k \in InstallKeys}
AllStoredEnvs == UNION {StoredEnvs(InstallToolkit(k)) : k \in InstallKeys}

\* The choices of what a registry holds per toolkit key.
LockContents ==
    {f \in [InstallKeys -> AllStoredLocks] :
        \A k \in InstallKeys : f[k] \in StoredLocks(InstallToolkit(k))}
EnvContents ==
    {f \in [InstallKeys -> AllStoredEnvs] :
        \A k \in InstallKeys : f[k] \in StoredEnvs(InstallToolkit(k))}
NoEnvs == [k \in InstallKeys |-> << >>]

\* One machine: any content of the shared and of the local registry; the shared
\* registry holds locks only.
Init ==
    /\ InitPure
    /\ InitRun
    /\ \E repoLock \in LockContents, localLock \in LockContents, localEnv \in EnvContents :
          registry =
              [id \in RegistryIds |->
                  IF id = repo_registry THEN RegistryOf(repoLock, NoEnvs)
                  ELSE IF id = local_registry(1) THEN RegistryOf(localLock, localEnv)
                  ELSE EmptyRegistry]
    /\ entry = [p \in Procs |-> registry]

-----------------------------------------------------------------------------
(* Toolkit.install (toolkit.py:261-298), one action per statement.  pc     *)
(* names the line about to execute; "done" is the return, "failed" an      *)
(* exception leaving install().                                            *)

\* Mutant: the shared registry's answer is ignored and the local one is asked.
AfterRepoFind_IgnoreHit(found) == "l269"

\* Mutant: the lock stage is skipped when the shared registry has no lock.
AfterRepoFind_SkipStage(found) == "l280"

\* Where install goes after repo_registry.find(lock_build) (toolkit.py:268).
AfterRepoFind(found) == IF found THEN "l280" ELSE "l269"

\* Mutant: a local hit is not promoted to the shared registry.
AfterLocalFind_SkipCopy(found) == IF found THEN "l280" ELSE "l273"

\* Mutant: the lock is rebuilt although the local registry holds it.
AfterLocalFind_Rebuild(found) == "l273"

\* Where install goes after local_registry.find(lock_build) (toolkit.py:269-271).
AfterLocalFind(found) == IF found THEN "l270" ELSE "l273"

\* The registries the new lock is pushed to, in order (toolkit.py:277-278).
LockPushOrder(p) == <<local_registry(p), repo_registry>>

\* Mutant: the test of toolkit.py:281 without its `not`.
AfterToolkitFind_Inverted(found) == IF found THEN "l282" ELSE "done"

\* Where install goes after local_registry.find(toolkit_build) (toolkit.py:281).
AfterToolkitFind(found) == IF found THEN "done" ELSE "l282"

\* Mutant: the environment is pushed to the shared registry.
ToolkitPushTarget_Repo(p) == repo_registry

\* The registry the environment is pushed to (toolkit.py:298).
ToolkitPushTarget(p) == local_registry(p)

\* The file the Resolver is told to write (--lockfile, toolkit.py:249-250): the
\* toolkit's lock_file; the output_path handed to lock() is not used.
ResolverTarget(output_path, lock_file_path) == lock_file_path

\* The bytes at a build's path.
ReadPath(p, b) ==
    IF b.path = "tmp" THEN tmp_lock[p][1] ELSE registry[b.path][BuildKey(b)][1]

\* A faulty unwinding that leaves the temporaries where they are.
Raise_KeepTemporaries(p, e) ==
    /\ pc' = [pc EXCEPT ![p] = "failed"]
    /\ error' = [error EXCEPT ![p] = e]
    /\ UNCHANGED <<tmp_lock, tmpdir, tmpdir_open>>

\* An exception leaves install(): the with-blocks remove their temporaries.
Raise(p, e) ==
    /\ pc' = [pc EXCEPT ![p] = "failed"]
    /\ error' = [error EXCEPT ![p] = e]
    /\ tmp_lock' = [tmp_lock EXCEPT ![p] = << >>]
    /\ tmpdir' = [tmpdir EXCEPT ![p] = << >>]
    /\ tmpdir_open' = [tmpdir_open EXCEPT ![p] = FALSE]

Goto(p, label) ==
    /\ pc' = [pc EXCEPT ![p] = label]
    /\ UNCHANGED error

Logged(p, op, to, b, bytes) ==
    ops' = [ops EXCEPT ![p] = Append(@, [op |-> op, to |-> to, key |-> BuildKey(b),
                                          bytes |-> bytes])]

\* toolkit.py:261-267: install() is called on a toolkit of the configuration.
Install(p) ==
    /\ pc[p] = "idle"
    /\ \E key \in InstallKeys :
          LET tk == get(config, key).val[1]
              build_ref == Ref(tk, files)
              build_name == conda_env_name(tk, config)
          IN  /\ self' = [self EXCEPT ![p] = <<tk>>]
              /\ lock_build' = [lock_build EXCEPT
                                    ![p] = <<Build("conda-lock", build_name, build_ref)>>]
    /\ entry' = [entry EXCEPT ![p] = registry]
    /\ pc' = [pc EXCEPT ![p] = "l268"]
    /\ UNCHANGED <<registry, toolkit_build, tmp_lock, tmpdir, tmpdir_open, lock_file,
                   envs, resolver_calls, materializer_calls, ops, error>>
    /\ UNCHANGED pureVars

\* toolkit.py:268: if not repo_registry.find(lock_build)
FindRepoLock(p) ==
    /\ pc[p] = "l268"
    /\ Goto(p, AfterRepoFind(RegistryFind(registry, repo_registry, lock_build[p][1]) # << >>))
    /\ Logged(p, "find", repo_registry, lock_build[p][1], << >>)
    /\ UNCHANGED <<registry, self, lock_build, toolkit_build, tmp_lock, tmpdir,
                   tmpdir_open, lock_file, envs, resolver_calls, materializer_calls,
                   entry>>
    /\ UNCHANGED pureVars

\* toolkit.py:269: if local_registry.find(lock_build)
FindLocalLock(p) ==
    /\ pc[p] = "l269"
    /\ Goto(p, AfterLocalFind(
                RegistryFind(registry, local_registry(p), lock_build[p][1]) # << >>))
    /\ Logged(p, "find", local_registry(p), lock_build[p][1], << >>)
    /\ UNCHANGED <<registry, self, lock_build, toolkit_build, tmp_lock, tmpdir,
                   tmpdir_open, lock_file, envs, resolver_calls, materializer_calls,
                   entry>>
    /\ UNCHANGED pureVars

\* toolkit.py:270: local_registry.copy(lock_build, repo_registry)
CopyLock(p) ==
    /\ pc[p] = "l270"
    /\ \E outcome \in WriteOutcomes :
          IF outcome = "ok"
          THEN /\ registry' = RegistryCopy(registry, local_registry(p), repo_registry,
                                           lock_build[p][1])
               /\ Logged(p, "copy", repo_registry, lock_build[p][1],
                         registry[local_registry(p)][BuildKey(lock_build[p][1])][1])
               /\ Goto(p, "l280")
               /\ UNCHANGED <<tmp_lock, tmpdir, tmpdir_open>>
          ELSE /\ Raise(p, "copy")
               /\ UNCHANGED <<registry, ops>>
    /\ UNCHANGED <<self, lock_build, toolkit_build, lock_file, envs, resolver_calls,
                   materializer_calls, entry>>
    /\ UNCHANGED pureVars

\* toolkit.py:273-275 and Toolkit.lock (231-259): the temporary file is created
\* (empty) and the Resolver runs on dependency_specs and platforms.
Lock(p) ==
    /\ pc[p] = "l273"
    /\ \E outcome \in CommandOutcomes :
          LET tk == self[p][1]
              specs == dependency_specs(tk, files)
              target == ResolverTarget("tmp", "lock_file")
              bytes == ResolverLock(specs, tk.platforms)
          IN  /\ resolver_calls' =
                    [resolver_calls EXCEPT
                        ![p] = Append(@, [specs |-> specs, platforms |-> tk.platforms,
                                          lockfile |-> target, outcome |-> outcome])]
              /\ lock_file' =
                    IF outcome = "ok" /\ target = "lock_file"
                    THEN [lock_file EXCEPT ![p][Uri(tk)] = <<bytes>>]
                    ELSE lock_file
              /\ IF outcome = "raise"
                 THEN Raise(p, "resolver")
                 ELSE /\ tmp_lock' =
                            [tmp_lock EXCEPT
                                ![p] = IF outcome = "ok" /\ target = "tmp"
                                       THEN <<bytes>> ELSE <<<< >>>>]
                      /\ Goto(p, "l276")
                      /\ UNCHANGED <<tmpdir, tmpdir_open>>
    /\ UNCHANGED <<registry, self, lock_build, toolkit_build, envs,
                   materializer_calls, ops, entry>>
    /\ UNCHANGED pureVars

\* toolkit.py:276-277: lock_build.path = lock_path; local_registry.push(lock_build)
PushLocalLock(p) ==
    /\ pc[p] = "l276"
    /\ LET b == [lock_build[p][1] EXCEPT !.path = "tmp"]
           to == LockPushOrder(p)[1]
       IN  /\ lock_build' = [lock_build EXCEPT ![p] = <<b>>]
           /\ \E outcome \in WriteOutcomes :
                 IF outcome = "ok"
                 THEN /\ registry' = RegistryPush(registry, to, b, ReadPath(p, b))
                      /\ Logged(p, "push", to, b, ReadPath(p, b))
                      /\ Goto(p, "l278")
                      /\ UNCHANGED <<tmp_lock, tmpdir, tmpdir_open>>
                 ELSE /\ Raise(p, "push")
                      /\ UNCHANGED <<registry, ops>>
    /\ UNCHANGED <<self, toolkit_build, lock_file, envs, resolver_calls,
                   materializer_calls, entry>>
    /\ UNCHANGED pureVars

\* toolkit.py:278: repo_registry.push(lock_build); the with-block then removes the
\* temporary file.
PushRepoLock(p) ==
    /\ pc[p] = "l278"
    /\ LET b == lock_build[p][1]
           to == LockPushOrder(p)[2]
       IN  \E outcome \in WriteOutcomes :
              IF outcome = "ok"
              THEN /\ registry' = RegistryPush(registry, to, b, ReadPath(p, b))
                   /\ Logged(p, "push", to, b, ReadPath(p, b))
                   /\ Goto(p, "l280")
                   /\ tmp_lock' = [tmp_lock EXCEPT ![p] = << >>]
                   /\ UNCHANGED <<tmpdir, tmpdir_open>>
              ELSE /\ Raise(p, "push")
                   /\ UNCHANGED <<registry, ops>>
    /\ UNCHANGED <<self, lock_build, toolkit_build, lock_file, envs, resolver_calls,
                   materializer_calls, entry>>
    /\ UNCHANGED pureVars

\* toolkit.py:280-281: if not local_registry.find(toolkit_build)
FindLocalToolkit(p) ==
    /\ pc[p] = "l280"
    /\ LET b == Build("toolkit", lock_build[p][1].name, lock_build[p][1].ref)
       IN  /\ toolkit_build' = [toolkit_build EXCEPT ![p] = <<b>>]
           /\ Goto(p, AfterToolkitFind(
                        RegistryFind(registry, local_registry(p), b) # << >>))
           /\ Logged(p, "find", local_registry(p), b, << >>)
    /\ UNCHANGED <<registry, self, lock_build, tmp_lock, tmpdir, tmpdir_open,
                   lock_file, envs, resolver_calls, materializer_calls, entry>>
    /\ UNCHANGED pureVars

\* toolkit.py:282: lock_build = repo_registry.find(lock_build)
FindRepoLockAgain(p) ==
    /\ pc[p] = "l282"
    /\ lock_build' = [lock_build EXCEPT
                        ![p] = RegistryFind(registry, repo_registry, lock_build[p][1])]
    /\ Logged(p, "find", repo_registry, lock_build[p][1], << >>)
    /\ Goto(p, "l285")
    /\ UNCHANGED <<registry, self, toolkit_build, tmp_lock, tmpdir, tmpdir_open,
                   lock_file, envs, resolver_calls, materializer_calls, entry>>
    /\ UNCHANGED pureVars

\* toolkit.py:285-292: the temporary directory is created and the lock copied into
\* it; lock_build.path raises AttributeError when find returned None.
StageLock(p) ==
    /\ pc[p] = "l285"
    /\ IF lock_build[p] = << >>
       THEN Raise(p, "AttributeError")
       ELSE \E outcome \in WriteOutcomes :
               IF outcome = "ok"
               THEN /\ tmpdir' = [tmpdir EXCEPT ![p] = <<ReadPath(p, lock_build[p][1])>>]
                    /\ tmpdir_open' = [tmpdir_open EXCEPT ![p] = TRUE]
                    /\ Goto(p, "l293")
                    /\ UNCHANGED tmp_lock
               ELSE Raise(p, "shutil.copy")
    /\ UNCHANGED <<registry, self, lock_build, toolkit_build, lock_file, envs,
                   resolver_calls, materializer_calls, ops, entry>>
    /\ UNCHANGED pureVars

\* toolkit.py:293-295: the Materializer runs on the staged lock and the
\* environment name; leaving the ExitStack removes the temporary directory.
CondaInstall(p) ==
    /\ pc[p] = "l293"
    /\ \E outcome \in CommandOutcomes :
          /\ materializer_calls' =
                [materializer_calls EXCEPT
                    ![p] = Append(@, [name |-> toolkit_build[p][1].name,
                                      lock |-> tmpdir[p],
                                      outcome |-> outcome])]
          /\ envs' = IF outcome = "ok"
                     THEN [envs EXCEPT ![p] = @ \cup {toolkit_build[p][1].name}]
                     ELSE envs
          /\ IF outcome = "raise"
             THEN Raise(p, "materializer")
             ELSE /\ Goto(p, "l297")
                  /\ tmpdir' = [tmpdir EXCEPT ![p] = << >>]
                  /\ tmpdir_open' = [tmpdir_open EXCEPT ![p] = FALSE]
                  /\ UNCHANGED tmp_lock
    /\ UNCHANGED <<registry, self, lock_build, toolkit_build, lock_file,
                   resolver_calls, ops, entry>>
    /\ UNCHANGED pureVars

\* toolkit.py:297-298: toolkit_build.path = <envs>/<name>; push(toolkit_build)
PushToolkit(p) ==
    /\ pc[p] = "l297"
    /\ LET b == [toolkit_build[p][1] EXCEPT !.path = "envs"]
           to == ToolkitPushTarget(p)
       IN  /\ toolkit_build' = [toolkit_build EXCEPT ![p] = <<b>>]
           /\ \E outcome \in WriteOutcomes :
                 IF outcome = "ok"
                 THEN /\ registry' = RegistryPush(registry, to, b, EnvPath(b.name))
                      /\ Logged(p, "push", to, b, EnvPath(b.name))
                      /\ Goto(p, "done")
                      /\ UNCHANGED <<tmp_lock, tmpdir, tmpdir_open>>
                 ELSE /\ Raise(p, "push")
                      /\ UNCHANGED <<registry, ops>>
    /\ UNCHANGED <<self, lock_build, lock_file, envs, resolver_calls,
                   materializer_calls, entry>>
    /\ UNCHANGED pureVars

\* install() has returned or raised: the caller has the outcome and the run's
\* locals are gone; install() may be called again.
Return(p) ==
    /\ pc[p] \in {"done", "failed"}
    /\ pc' = [pc EXCEPT ![p] = "idle"]
    /\ self' = [self EXCEPT ![p] = << >>]
    /\ lock_build' = [lock_build EXCEPT ![p] = << >>]
    /\ toolkit_build' = [toolkit_build EXCEPT ![p] = << >>]
    /\ resolver_calls' = [resolver_calls EXCEPT ![p] = << >>]
    /\ materializer_calls' = [materializer_calls EXCEPT ![p] = << >>]
    /\ ops' = [ops EXCEPT ![p] = << >>]
    /\ entry' = [entry EXCEPT ![p] = registry]
    /\ error' = [error EXCEPT ![p] = ""]
    /\ UNCHANGED <<registry, tmp_lock, tmpdir, tmpdir_open, lock_file, envs>>
    /\ UNCHANGED pureVars

\* The install runs of the sequential specification: one caller on one machine.
SeqProcs == {1}

Next ==
    \E p \in SeqProcs :
        \/ Install(p)
        \/ FindRepoLock(p)
        \/ FindLocalLock(p)
        \/ CopyLock(p)
        \/ Lock(p)
        \/ PushLocalLock(p)
        \/ PushRepoLock(p)
        \/ FindLocalToolkit(p)
        \/ FindRepoLockAgain(p)
        \/ StageLock(p)
        \/ CondaInstall(p)
        \/ PushToolkit(p)
        \/ Return(p)

Spec == Init /\ [][Next]_vars

-----------------------------------------------------------------------------
(* Properties of install.                                                  *)

Running(p) == pc[p] # "idle"

\* The keys of the two artifacts of the toolkit run p installs.
LockKey(p) == BuildKey(LockBuildOf(self[p][1]))
EnvKey(p) == BuildKey(ToolkitBuildOf(self[p][1]))

\* The registry writes of run p that concern a lock artifact.
LockWrites(p) ==
    SelectSeq(ops[p], LAMBDA o : o.op \in {"push", "copy"} /\ o.key.kind = "conda-lock")

\* The lock stage (toolkit.py:267-278) of run p is behind it.
PastLockStage(p) == pc[p] \in {"l280", "l282", "l285", "l293", "l297", "done"}

\* C1: when install() is called while the shared registry holds the toolkit's lock
\* artifact, the Resolver is never invoked, no lock artifact is pushed or copied to
\* any registry, and the Materializer is invoked only if the environment artifact
\* was absent from the local registry.
C1_SharedHitDoesNoLockWork ==
    \A p \in Procs :
        (Running(p) /\ entry[p][repo_registry][LockKey(p)] # << >>) =>
            /\ resolver_calls[p] = << >>
            /\ LockWrites(p) = << >>
            /\ \A id \in RegistryIds : registry[id][LockKey(p)] = entry[p][id][LockKey(p)]
            /\ (materializer_calls[p] # << >> =>
                    entry[p][local_registry(p)][EnvKey(p)] = << >>)

\* A run that found the lock in the shared registry, ran the Materializer and returned.
C1_Witness ==
    \E p \in Procs :
        /\ pc[p] = "done"
        /\ entry[p][repo_registry][LockKey(p)] # << >>
        /\ Len(materializer_calls[p]) = 1

\* C2: whatever the registries held at the call, when install() returns without
\* error the shared registry holds the lock artifact and the local registry the
\* environment artifact of the toolkit's (name, ref).
C2_ReturnMeansBothCached ==
    \A p \in Procs :
        pc[p] = "done" =>
            /\ registry[repo_registry][LockKey(p)] # << >>
            /\ registry[local_registry(p)][EnvKey(p)] # << >>

\* A run that started with neither artifact in any registry and returned.
C2_Witness ==
    \E p \in Procs :
        /\ pc[p] = "done"
        /\ \A id \in RegistryIds :
              entry[p][id][LockKey(p)] = << >> /\ entry[p][id][EnvKey(p)] = << >>

\* C3: when the lock artifact is in neither registry, the Resolver is invoked
\* exactly once, with the toolkit's dependency_specs and platforms, and the bytes
\* that invocation produced are what the temporary file holds and what is pushed,
\* to the local registry first and to the shared registry second.
C3_ResolverBytesAreStagedAndPushed ==
    \A p \in Procs :
        (/\ Running(p)
         /\ entry[p][repo_registry][LockKey(p)] = << >>
         /\ entry[p][local_registry(p)][LockKey(p)] = << >>
         /\ resolver_calls[p] # << >>
         /\ resolver_calls[p][1].outcome = "ok") =>
            LET produced == ResolverLock(dependency_specs(self[p][1], files),
                                         self[p][1].platforms)
            IN  /\ Len(resolver_calls[p]) = 1
                /\ resolver_calls[p][1].specs = dependency_specs(self[p][1], files)
                /\ resolver_calls[p][1].platforms = self[p][1].platforms
                /\ (pc[p] \in {"l276", "l278"} => tmp_lock[p] = <<produced>>)
                /\ \A i \in 1..Len(LockWrites(p)) :
                      /\ LockWrites(p)[i].op = "push"
                      /\ LockWrites(p)[i].bytes = produced
                      /\ LockWrites(p)[i].to =
                            <<local_registry(p), repo_registry>>[i]

\* C4: the lock is looked up in the shared registry, then in the local one: when
\* it is absent from the shared registry and present in the local one, install
\* copies it from the local into the shared registry, does not invoke the
\* Resolver, and leaves the local registry's lock artifact as it was.
C4_LocalHitIsPromoted ==
    \A p \in Procs :
        (/\ Running(p)
         /\ entry[p][repo_registry][LockKey(p)] = << >>
         /\ entry[p][local_registry(p)][LockKey(p)] # << >>) =>
            /\ resolver_calls[p] = << >>
            /\ registry[local_registry(p)][LockKey(p)]
                    = entry[p][local_registry(p)][LockKey(p)]
            /\ \A i \in 1..Len(LockWrites(p)) :
                  LockWrites(p)[i].op = "copy" /\ LockWrites(p)[i].to = repo_registry
            /\ (PastLockStage(p) =>
                    /\ Len(LockWrites(p)) = 1
                    /\ registry[repo_registry][LockKey(p)]
                            = entry[p][local_registry(p)][LockKey(p)])
            /\ (Len(ops[p]) >= 2 =>
                    /\ ops[p][1].op = "find" /\ ops[p][1].to = repo_registry
                    /\ ops[p][2].op = "find" /\ ops[p][2].to = local_registry(p))

\* A run that promoted the local lock to the shared registry and returned.
C4_Witness ==
    \E p \in Procs :
        /\ pc[p] = "done"
        /\ entry[p][repo_registry][LockKey(p)] = << >>
        /\ entry[p][local_registry(p)][LockKey(p)] # << >>
        /\ registry[repo_registry][LockKey(p)] # << >>

\* C5: when install reaches the materialize step (the environment artifact is
\* absent locally), the shared registry holds the lock artifact and the lookup of
\* toolkit.py:282 succeeds; the Materializer only ever runs on a staged lock that
\* is the shared registry's; a run that ended on the missing lock
\* (AttributeError) never ran the Materializer.
C5_MaterializeHasTheSharedLock ==
    \A p \in Procs :
        /\ (pc[p] \in {"l282", "l285", "l293"} =>
                registry[repo_registry][LockKey(p)] # << >>)
        /\ (pc[p] \in {"l285", "l293"} =>
                lock_build[p] # << >> /\ lock_build[p][1].path = repo_registry)
        /\ \A i \in 1..Len(materializer_calls[p]) :
              /\ materializer_calls[p][i].lock # << >>
              /\ materializer_calls[p][i].lock = registry[repo_registry][LockKey(p)]
        /\ (error[p] = "AttributeError" =>
                pc[p] = "failed" /\ materializer_calls[p] = << >>)

\* A run that built the lock itself and then ran the Materializer.
C5_Witness ==
    \E p \in Procs :
        /\ pc[p] = "l297"
        /\ Len(resolver_calls[p]) = 1
        /\ Len(materializer_calls[p]) = 1

\* C6: when the Resolver fails to produce a lock, install ends in a failure the
\* caller sees: the Resolver is not invoked again, no lock artifact is pushed or
\* copied, the Materializer is not invoked, and install does not return normally.
C6_ResolverFailureIsFatal ==
    \A p \in Procs :
        (\E i \in 1..Len(resolver_calls[p]) : resolver_calls[p][i].outcome # "ok") =>
            /\ Len(resolver_calls[p]) = 1
            /\ LockWrites(p) = << >>
            /\ materializer_calls[p] = << >>
            /\ pc[p] # "done"

\* C7: the shared registry never holds an environment artifact, and install never
\* finds, pushes or copies one there: every registry call about an environment
\* artifact is made on the local registry.
C7_EnvironmentsStayLocal ==
    /\ \A k \in InstallBuildKeys :
          k.kind = "toolkit" => registry[repo_registry][k] = << >>
    /\ \A p \in Procs : \A i \in 1..Len(ops[p]) :
          ops[p][i].key.kind = "toolkit" => ops[p][i].to = local_registry(p)

\* A run that materialized the environment and pushed it.
C7_Witness ==
    \E p \in Procs :
        /\ pc[p] = "done"
        /\ \E i \in 1..Len(ops[p]) : ops[p][i].op = "push" /\ ops[p][i].key.kind = "toolkit"

\* The registry writes of run p that concern an environment artifact.
EnvWrites(p) ==
    SelectSeq(ops[p], LAMBDA o : o.op \in {"push", "copy"} /\ o.key.kind = "toolkit")

\* What registry `id` holds under key k when all that happened since run p was
\* called are the pushes and copies the run completed.
WrittenByRun(p, id, k) ==
    LET at == {i \in 1..Len(ops[p]) :
                  /\ ops[p][i].op \in {"push", "copy"}
                  /\ ops[p][i].to = id
                  /\ ops[p][i].key = k}
    IN  IF at = {} THEN entry[p][id][k]
        ELSE <<ops[p][CHOOSE i \in at : \A j \in at : j <= i].bytes>>

\* C17: when a step of install fails, nothing is rolled back and no further step
\* runs.  After a failure the registries hold what they held at the call plus the
\* pushes and copies the run had completed; a failed push to the shared registry
\* leaves the lock in the local registry; once the Resolver has failed no
\* artifact is written and the Materializer is not run; once the Materializer has
\* failed the lock is still in the shared registry (and in the local one, if the
\* run filed it there), no environment artifact is pushed and install does not
\* return normally.
C17_FailureStopsTheRun ==
    \A p \in Procs :
        /\ (pc[p] = "failed" =>
                \A id \in RegistryIds : \A k \in InstallBuildKeys :
                    registry[id][k] = WrittenByRun(p, id, k))
        /\ (pc[p] = "failed" /\ error[p] = "push" /\ LockWrites(p) # << >> =>
                registry[local_registry(p)][LockKey(p)] # << >>)
        /\ ((\E i \in 1..Len(resolver_calls[p]) : resolver_calls[p][i].outcome # "ok") =>
                /\ LockWrites(p) = << >>
                /\ EnvWrites(p) = << >>
                /\ materializer_calls[p] = << >>)
        /\ ((\E i \in 1..Len(materializer_calls[p]) :
                    materializer_calls[p][i].outcome # "ok") =>
                /\ registry[repo_registry][LockKey(p)] # << >>
                /\ (LockWrites(p) # << >> =>
                        registry[local_registry(p)][LockKey(p)] # << >>)
                /\ EnvWrites(p) = << >>
                /\ pc[p] # "done")

\* C18: when install has returned or raised, neither the temporary lock file nor
\* the temporary staging directory of the run exists any more.
C18_TemporariesAreGone ==
    \A p \in Procs :
        pc[p] \in {"done", "failed"} =>
            /\ tmp_lock[p] = << >>
            /\ tmpdir[p] = << >>
            /\ ~tmpdir_open[p]

\* A run that created both temporaries (it invoked the Resolver and staged the
\* lock) and then ended in a failure of the Materializer.
C18_Witness ==
    \E p \in Procs :
        /\ pc[p] = "failed"
        /\ error[p] = "materializer"
        /\ Len(resolver_calls[p]) = 1
        /\ Len(materializer_calls[p]) = 1

-----------------------------------------------------------------------------
(* Calls of the pure functions: the install runs stay idle.                *)

InitIdle ==
    /\ InitRun
    /\ registry = [id \in RegistryIds |-> EmptyRegistry]
    /\ entry = [p \in Procs |-> registry]

\* A definition with inline toolset fields and no base.
InlineDef(key, manager, tools, file) ==
    ToolkitDef(key, << >>, << >>, manager, tools, file, << >>)

-----------------------------------------------------------------------------
(* get() with no key (toolkit.py:208-225, 301-305).                        *)

\* The most toolkits a configuration of SpecDefault lists.
MaxToolkits == 3

\* The keys its toolkits are drawn from: "default", public, private and empty ones.
DefaultKeyPool == {Str_default, <<"a">>, <<"b">>, <<"_", "p">>, << >>}

\* The tool of the toolkit listed i-th, so that equal keys stay distinguishable.
NthTool == <<"1", "2", "3", "4", "5", "6", "7", "8", "9">>

DefaultConfigs ==
    {[project |-> [key |-> <<"p">>],
      toolkits |-> [i \in 1..Len(keys) |->
                        InlineDef(keys[i], "conda", <<<<"t", NthTool[i]>>>>, "")]] :
        keys \in SeqsOf(DefaultKeyPool, 0, MaxToolkits)}

InitDefault ==
    /\ InitIdle
    /\ config \in DefaultConfigs
    /\ files = NoFiles
    /\ call = NoCall

\* get() is called with no key.
CallGet ==
    /\ call.fn = ""
    /\ call' = [fn |-> "get", args |-> << >>, result |-> get(config, << >>)]
    /\ UNCHANGED <<config, files>>
    /\ UNCHANGED installVars

\* get(key) is called with a key of the pool.
CallGetKey ==
    /\ call.fn = ""
    /\ \E key \in DefaultKeyPool \ {<< >>} :
          call' = [fn |-> "get", args |-> <<key>>, result |-> get(config, key)]
    /\ UNCHANGED <<config, files>>
    /\ UNCHANGED installVars

NextDefault == CallGet \/ CallGetKey

SpecDefault == InitDefault /\ [][NextDefault]_vars

\* The positions of the configured toolkits keyed "default", and of those whose
\* key does not start with "_".
DefaultAt == {i \in 1..Len(config.toolkits) : config.toolkits[i].key = Str_default}
PublicAt ==
    {i \in 1..Len(config.toolkits) :
        config.toolkits[i].key = << >> \/ Head(config.toolkits[i].key) # "_"}

\* C10: get() with no key returns the toolkit keyed "default" when one is
\* configured, wherever it is listed; otherwise the only toolkit whose key does not
\* start with "_" when there is exactly one; otherwise None.
C10_DefaultResolution ==
    (call.fn = "get" /\ call.args = << >>) =>
        IF DefaultAt # {}
            THEN /\ call.result.tag = "ok"
                 /\ call.result.val[1].key = Str_default
                 /\ call.result.val[1].def = config.toolkits[Min(DefaultAt)]
        ELSE IF Cardinality(PublicAt) = 1
            THEN /\ call.result.tag = "ok"
                 /\ \A i \in PublicAt : call.result.val[1].def = config.toolkits[i]
        ELSE call.result = ReturnedNone

\* get() returned the default toolkit although public toolkits are listed before it.
C10_Witness ==
    /\ call.fn = "get" /\ call.args = << >>
    /\ DefaultAt # {}
    /\ \E i \in PublicAt : i < Min(DefaultAt) /\ i \notin DefaultAt
    /\ call.result.tag = "ok"

-----------------------------------------------------------------------------
(* Toolkit.dependency_specs (toolkit.py:156-183) on a chain of at most two *)
(* toolkits: "c", and its base "b" when it has one.                        *)

\* The most toolsets the toolkit "c" lists.
MaxToolsets == 2

\* The tools lists of its toolsets.
SpecsToolLists ==
    {<<Str_python>>,
     <<Str_black>>,
     <<<<"P", "i", "p">>>>,
     <<<<"P", "y", "t", "h", "o", "n", "=", "=", "3">>, Str_black>>}

\* The toolsets: a tools list, or the manifest environment.yml, under either manager.
SpecsToolsets ==
    {ToolsetDef(m, tools, "") : m \in Managers, tools \in SpecsToolLists}
    \cup {ToolsetDef(m, << >>, "environment.yml") : m \in Managers}

\* What environment.yml holds.
SpecsManifests == {<<Str_python>>, <<Str_black, Str_pip>>}

SpecsConfigs ==
    {[project |-> [key |-> <<"p">>],
      toolkits |-> <<ToolkitDef(<<"c">>, base, toolsets, "", << >>, "", << >>)>>
                   \o (IF base = << >> THEN << >>
                       ELSE <<InlineDef(<<"b">>, ts.manager, ts.tools, ts.file)>>)] :
        base \in {<< >>, <<"b">>},
        toolsets \in SeqsOf(SpecsToolsets, 1, MaxToolsets),
        ts \in SpecsToolsets}

InitSpecs ==
    /\ InitIdle
    /\ config \in SpecsConfigs
    /\ \E lines \in SpecsManifests : files = [NoFiles EXCEPT !["environment.yml"] = lines]
    /\ call = NoCall

\* The toolkit "c" of the configuration.
SpecsToolkit == from_key(config, <<"c">>, RecursionLimit).val[1]

\* dependency_specs is read on the toolkit "c".
CallDependencySpecs ==
    /\ call.fn = ""
    /\ call' = [fn |-> "dependency_specs", args |-> <<SpecsToolkit.key>>,
                result |-> dependency_specs(SpecsToolkit, files)]
    /\ UNCHANGED <<config, files>>
    /\ UNCHANGED installVars

NextSpecs == CallDependencySpecs

SpecSpecs == InitSpecs /\ [][NextSpecs]_vars

\* The toolsets of the chain, base first, and all their dependencies.
ChainToolsets ==
    (IF SpecsToolkit.base = << >> THEN << >> ELSE SpecsToolkit.base[1].toolsets)
    \o SpecsToolkit.toolsets
ChainDependencies ==
    UNION {Range(DependencySpec(ChainToolsets[i], files).dependencies) :
                i \in 1..Len(ChainToolsets)}

\* The chain has a python dependency, no pip dependency, and a dependency whose
\* manager is pip.
PipIsMissing ==
    /\ \E d \in ChainDependencies : d.name = Str_python
    /\ ~\E d \in ChainDependencies : d.name = Str_pip
    /\ \E d \in ChainDependencies : d.manager = "pip"

\* C9: dependency_specs returns the spec of every flattened toolset, in flattened
\* order, each as the toolset gives it, and after them one more spec exactly when
\* the chain has a python dependency, no pip dependency and a dependency managed by
\* pip: a spec whose only dependency is a python dependency of the chain renamed
\* pip and pinned to 22.3.1.
C9_SpecsPerToolsetPlusPip ==
    call.fn = "dependency_specs" =>
        LET n == Len(ChainToolsets)
            specs == call.result
        IN  /\ Len(specs) = n + (IF PipIsMissing THEN 1 ELSE 0)
            /\ \A i \in 1..n : specs[i] = DependencySpec(ChainToolsets[i], files)
            /\ PipIsMissing =>
                  /\ specs[n + 1].channels = << >>
                  /\ specs[n + 1].sources = << >>
                  /\ Len(specs[n + 1].dependencies) = 1
                  /\ specs[n + 1].dependencies[1].name = Str_pip
                  /\ specs[n + 1].dependencies[1].version =
                        <<"2", "2", ".", "3", ".", "1">>
                  /\ \E d \in ChainDependencies :
                        /\ d.name = Str_python
                        /\ specs[n + 1].dependencies[1].manager = d.manager
                        /\ specs[n + 1].dependencies[1].conda_channel = d.conda_channel

\* The pip spec was appended to the specs of a chain of two toolkits.
C9_Witness ==
    /\ call.fn = "dependency_specs"
    /\ PipIsMissing
    /\ SpecsToolkit.base # << >>
    /\ Len(call.result) = Len(ChainToolsets) + 1

-----------------------------------------------------------------------------
(* Toolkit.ref (toolkit.py:101-116) while the definitions and the manifest *)
(* files are edited.                                                       *)

\* The most lines a manifest file holds.
MaxLines == 2

RefLines == {<<"a">>, <<"b">>}
RefManifests == SeqsOf(RefLines, 0, MaxLines)

\* Configurations of a toolkit "c": two manifest toolsets; a base "b" holding a
\* manifest and "c" a tools list and a manifest; the same with a tools list in the
\* base; and a single tools list.
RefConfigs ==
    {[project |-> [key |-> <<"p">>], toolkits |-> tks] : tks \in {
        <<ToolkitDef(<<"c">>, << >>,
                     <<ToolsetDef("conda", << >>, "environment.yml"),
                       ToolsetDef("conda", << >>, "environment.yaml")>>,
                     "", << >>, "", << >>)>>,
        <<ToolkitDef(<<"c">>, <<"b">>,
                     <<ToolsetDef("pip", <<Str_black>>, ""),
                       ToolsetDef("conda", << >>, "environment.yaml")>>,
                     "", << >>, "", << >>),
          InlineDef(<<"b">>, "conda", << >>, "environment.yml")>>,
        <<ToolkitDef(<<"c">>, <<"b">>,
                     <<ToolsetDef("pip", <<Str_black>>, ""),
                       ToolsetDef("conda", << >>, "environment.yaml")>>,
                     "", << >>, "", << >>),
          InlineDef(<<"b">>, "conda", <<Str_python>>, "")>>,
        <<InlineDef(<<"c">>, "conda", <<Str_python>>, "")>>}}

InitRef ==
    /\ InitIdle
    /\ config \in RefConfigs
    /\ \E yml \in RefManifests, yaml \in RefManifests :
          files = [NoFiles EXCEPT !["environment.yml"] = yml,
                                  !["environment.yaml"] = yaml]
    /\ call = NoCall

\* The toolkit "c" of the configuration.
RefToolkit == from_key(config, <<"c">>, RecursionLimit).val[1]

\* What the ref is documented to depend on: the definition records of the
\* flattened chain, and the bytes of each referenced manifest, in flattened order.
RefInputs(tk, fs) ==
    LET tks == flattened_toolkits(tk)
        fileSets == SelectSeq(flattened_toolsets(tk), LAMBDA ts : ts.file # "")
    IN  <<[i \in 1..Len(tks) |-> tks[i].def],
          [i \in 1..Len(fileSets) |-> FileBytes(fs[fileSets[i].file])]>>

\* ref is read on the toolkit "c".
CallRef ==
    /\ call' = [fn |-> "ref", args |-> RefInputs(RefToolkit, files),
                result |-> <<Ref(RefToolkit, files)>>]
    /\ UNCHANGED <<config, files>>
    /\ UNCHANGED installVars

\* A manifest file is rewritten.
EditFile ==
    /\ \E f \in {"environment.yml", "environment.yaml"}, lines \in RefManifests :
          /\ lines # files[f]
          /\ files' = [files EXCEPT ![f] = lines]
    /\ UNCHANGED <<config, call>>
    /\ UNCHANGED installVars

\* The configuration is rewritten.
EditDef ==
    /\ \E c \in RefConfigs : c # config /\ config' = c
    /\ UNCHANGED <<files, call>>
    /\ UNCHANGED installVars

NextRef == CallRef \/ EditFile \/ EditDef

SpecRef == InitRef /\ [][NextRef]_vars

\* C8: ref is a function of the chain's definition records and of the bytes of the
\* referenced manifests: read again with both unchanged it is the ref read before,
\* and once a definition of the chain or the bytes of a referenced manifest have
\* changed it is a different ref.
C8_RefIdentifiesDefinitionsAndManifests ==
    call.fn = "ref" =>
        LET now == Ref(RefToolkit, files)
        IN  /\ (RefInputs(RefToolkit, files) = call.args => now = call.result[1])
            /\ (RefInputs(RefToolkit, files) # call.args => now # call.result[1])

-----------------------------------------------------------------------------
(* SpecToolset: one toolset definition is constructed, then its dependency  *)
(* specification is read (toolkit.py:20-87).                               *)

Str_Req2 == <<"R", "e", "q", "=", "=", "2">>
Str_SpBlack == <<" ", "B", "l", "a", "c", "k">>
Str_Pip == <<"P", "i", "p">>
Str_UpperPip == <<"P", "I", "P">>
Str_Num == <<"bioconda", "::", "N", "u", "m">>
Str_ChannelLine == <<"#", "d", "e", "f", "s">>

ToolsetManagers == {"conda", "pip", "npm"}
ToolsetToolLists ==
    {<< >>, <<Str_python>>, <<Str_Req2, Str_SpBlack>>, <<Str_Pip, Str_Req2>>}
ToolsetFileNames ==
    {"", "environment.yml", "environment.yaml", "pyproject.toml", "requirements.txt"}
ToolsetManifests ==
    {<<Str_Num, Str_python>>, <<Str_ChannelLine, Str_black, Str_UpperPip>>}

InitToolset ==
    /\ InitIdle
    /\ \E m \in ToolsetManagers, t \in ToolsetToolLists, f \in ToolsetFileNames :
          config = [project |-> [key |-> <<"p">>],
                    toolkits |-> <<InlineDef("t", m, t, f)>>]
    /\ \E lines \in ToolsetManifests : files = [f \in ManifestFiles |-> lines]
    /\ call = NoCall

\* Toolset.from_def followed by the dataclass constructor and __post_init__.
ToolsetNew(d) ==
    LET ts == ToolsetFromDef(d)
    IN  IF ToolsetValid(ts) THEN Returned(ts) ELSE Raised("ValueError")

CallToolset ==
    /\ call.fn = ""
    /\ call' = [fn |-> "Toolset", args |-> <<config.toolkits[1]>>,
                result |-> ToolsetNew(config.toolkits[1])]
    /\ UNCHANGED <<config, files>>
    /\ UNCHANGED installVars

\* The dependency_spec property of the toolset just constructed.
CallDependencySpec ==
    /\ call.fn = "Toolset"
    /\ call.result.tag = "ok"
    /\ call' = [fn |-> "dependency_spec", args |-> call.result.val,
                result |-> DependencySpec(call.result.val[1], files)]
    /\ UNCHANGED <<config, files>>
    /\ UNCHANGED installVars

NextToolset == CallToolset \/ CallDependencySpec

SpecToolset == InitToolset /\ [][NextToolset]_vars

\* C11: a toolset is constructed exactly when its manager is conda or pip and it
\* has exactly one of a non-empty tools list or a whitelisted file; a definition
\* with another manager, with neither tools nor file, or with an unrecognized
\* file name raises at construction.
C11_ExactlyOneOfToolsOrFile ==
    call.fn = "Toolset" =>
        LET d == call.args[1]
            hasTools == d.tools # << >>
            hasFile == d.file \in {"pyproject.toml", "environment.yaml", "environment.yml"}
        IN  /\ (call.result.tag = "ok" =>
                    /\ d.manager \in {"conda", "pip"}
                    /\ hasTools # hasFile)
            /\ (\/ d.manager \notin {"conda", "pip"}
                \/ (d.tools = << >> /\ d.file = "")
                \/ (d.file # "" /\ ~hasFile)
                    => call.result.tag = "raise")

\* The requirement lines a dependency specification was parsed from, and the
\* channel a line qualifies its package with ("" when it names none).
SourceLines(ts) ==
    IF ts.file \in {"pyproject.toml", "environment.yaml", "environment.yml"}
    THEN RequirementLines(files[ts.file])
    ELSE ts.tools

QualifiedChannel(ts, line) ==
    IF ts.file # "" /\ Len(line) >= 2 /\ line[2] = "::" THEN line[1] ELSE ""

C13_NamesNormalizedSourcesEmpty ==
    call.fn = "dependency_spec" =>
        /\ call.result.sources = << >>
        /\ \A i \in 1..Len(call.result.dependencies) :
              LET name == call.result.dependencies[i].name
              IN  /\ \A j \in 1..Len(name) : name[j] \notin Range(Upper)
                  /\ (name # << >> =>
                        /\ name[1] \notin Whitespace
                        /\ name[Len(name)] \notin Whitespace)

\* A toolset listing " Black": the name was lowercased and trimmed.
C13_Witness ==
    /\ call.fn = "dependency_spec"
    /\ \E i \in 1..Len(call.args[1].tools) : call.args[1].tools[i] = Str_SpBlack
    /\ \E i \in 1..Len(call.result.dependencies) :
          call.result.dependencies[i].name = Str_black

-----------------------------------------------------------------------------
(* SpecChain: a toolkit is resolved by key from a configuration whose base  *)
(* references are arbitrary, then its chain is flattened and its lock       *)
(* arguments are built (toolkit.py:133-154, 185-206, 247-257).             *)

ChainKeys == <<<<"a">>, <<"b">>, <<"c">>>>
ChainMissingKey == <<"x">>
ChainBases == {<< >>} \cup Range(ChainKeys) \cup {ChainMissingKey}
ChainPlatformLists == {<< >>, <<"linux-64", "osx-64">>}

\* The definition of the i-th toolkit: the first has a toolsets list of two, the
\* others inline toolset fields, each its own.
ChainDef(i, base, platforms) ==
    IF i = 1
    THEN ToolkitDef(ChainKeys[i], base,
                    <<ToolsetDef("conda", <<Str_python>>, ""),
                      ToolsetDef("pip", <<Str_black>>, "")>>,
                    "", << >>, "", platforms)
    ELSE IF i = 2
    THEN ToolkitDef(ChainKeys[i], base, << >>, "pip", <<Str_Req2>>, "", platforms)
    ELSE ToolkitDef(ChainKeys[i], base, << >>, "conda", << >>, "environment.yml",
                    platforms)

InitChain ==
    /\ InitIdle
    /\ \E bases \in [1..Len(ChainKeys) -> ChainBases],
          platforms \in [1..Len(ChainKeys) -> ChainPlatformLists] :
          config = [project |-> [key |-> <<"p">>],
                    toolkits |-> [i \in 1..Len(ChainKeys) |->
                                    ChainDef(i, bases[i], platforms[i])]]
    /\ files = NoFiles
    /\ call = NoCall

CallFromKey ==
    /\ call.fn = ""
    /\ \E key \in Range(ChainKeys) \cup {ChainMissingKey} :
          call' = [fn |-> "from_key", args |-> <<key>>,
                   result |-> from_key(config, key, RecursionLimit)]
    /\ UNCHANGED <<config, files>>
    /\ UNCHANGED installVars

CallFlattenedToolkits ==
    /\ call.fn = "from_key"
    /\ call.result.tag = "ok"
    /\ call' = [fn |-> "flattened_toolkits", args |-> call.result.val,
                result |-> flattened_toolkits(call.result.val[1])]
    /\ UNCHANGED <<config, files>>
    /\ UNCHANGED installVars

CallFlattenedToolsets ==
    /\ call.fn = "from_key"
    /\ call.result.tag = "ok"
    /\ call' = [fn |-> "flattened_toolsets", args |-> call.result.val,
                result |-> flattened_toolsets(call.result.val[1])]
    /\ UNCHANGED <<config, files>>
    /\ UNCHANGED installVars

\* The platform arguments Toolkit.lock hands to the Resolver (toolkit.py:256-257).
LockPlatformArgs(tk) == Concat([i \in 1..Len(tk.platforms) |-> <<"-p", tk.platforms[i]>>])

CallLock ==
    /\ call.fn = "from_key"
    /\ call.result.tag = "ok"
    /\ call' = [fn |-> "lock", args |-> call.result.val,
                result |-> LockPlatformArgs(call.result.val[1])]
    /\ UNCHANGED <<config, files>>
    /\ UNCHANGED installVars

NextChain == CallFromKey \/ CallFlattenedToolkits \/ CallFlattenedToolsets \/ CallLock

SpecChain == InitChain /\ [][NextChain]_vars

\* The platform list the claim gives a toolkit built from definition d.
ClaimedPlatforms(d) ==
    IF d.platforms # << >> THEN d.platforms ELSE <<"osx-arm64", "osx-64", "linux-64">>

\* C14: a toolkit built from a definition that lists platforms has exactly that
\* list, in order, and one built from a definition without platforms has the
\* three default platforms; the Resolver is handed exactly that list.
C14_PlatformsFromDefinition ==
    /\ (call.fn = "from_key" /\ call.result.tag = "ok" =>
            call.result.val[1].platforms = ClaimedPlatforms(call.result.val[1].def))
    /\ (call.fn = "lock" =>
            LET want == ClaimedPlatforms(call.args[1].def)
            IN  call.result = Concat([i \in 1..Len(want) |-> <<"-p", want[i]>>]))

RECURSIVE ChainDepth(_)
\* The number of toolkits on the base chain of tk, tk included.
ChainDepth(tk) == IF tk.base = << >> THEN 1 ELSE 1 + ChainDepth(tk.base[1])

\* C15: flattened_toolkits lists the ancestors before the toolkit, root first
\* and each followed by the toolkit based on it, holds the toolkit itself exactly
\* once, as its last element, and is as long as the chain is deep.
C15_AncestorsThenSelf ==
    call.fn = "flattened_toolkits" =>
        LET tk == call.args[1]
            flat == call.result
        IN  /\ Len(flat) = ChainDepth(tk)
            /\ flat[Len(flat)] = tk
            /\ Cardinality({i \in 1..Len(flat) : flat[i] = tk}) = 1
            /\ flat[1].base = << >>
            /\ \A i \in 1..(Len(flat) - 1) : flat[i + 1].base = <<flat[i]>>

\* A chain of three toolkits was flattened.
C15_Witness ==
    /\ call.fn = "flattened_toolkits"
    /\ Len(call.result) = 3
    /\ call.result[1].base = << >>

\* C16: flattened_toolsets is the concatenation, over flattened_toolkits in
\* order, of each toolkit's own toolsets in their own order, the toolkit's own
\* toolsets last.
C16_ToolsetsFollowToolkits ==
    call.fn = "flattened_toolsets" =>
        LET tk == call.args[1]
            flat == flattened_toolkits(tk)
        IN  /\ call.result = Concat([i \in 1..Len(flat) |-> flat[i].toolsets])
            /\ SubSeq(call.result, Len(call.result) - Len(tk.toolsets) + 1,
                      Len(call.result)) = tk.toolsets

\* The toolsets of a chain of two were flattened: the base has one toolset, the
\* toolkit the two of its toolsets list.
C16_Witness ==
    /\ call.fn = "flattened_toolsets"
    /\ call.args[1].base # << >>
    /\ Len(call.args[1].toolsets) = 2
    /\ Len(call.result) = 3
    /\ call.result[1] # call.result[2]

\* C20: resolving any key of the configuration returns a toolkit whose base
\* chain is finite and repeats no key, also when a base reference names the
\* toolkit itself or the references form a cycle.
C20_ResolutionYieldsAcyclicChain ==
    call.fn = "from_key" /\ call.args[1] \in Range(ChainKeys) =>
        /\ call.result.tag = "ok"
        /\ LET flat == flattened_toolkits(call.result.val[1])
           IN  \A i, j \in 1..Len(flat) : flat[i].key = flat[j].key => i = j

-----------------------------------------------------------------------------
(* SpecConcurrent: two callers on two machines run install() for the same   *)
(* toolkit at once; their steps interleave, each registry call is one step. *)

\* The lock an earlier install resolved and pushed for each toolkit.
ResolvedLocks ==
    [k \in InstallKeys |->
        <<ResolverLock(dependency_specs(InstallToolkit(k), NoFiles),
                       InstallToolkit(k).platforms)>>]
NoLocks == [k \in InstallKeys |-> << >>]

\* The shared registry and the local registry of the first machine each hold
\* the locks or nothing; no environment has been created yet.
InitConcurrent ==
    /\ InitPure
    /\ InitRun
    /\ \E repoLock \in {NoLocks, ResolvedLocks}, localLock \in {NoLocks, ResolvedLocks} :
          registry =
              [id \in RegistryIds |->
                  IF id = repo_registry THEN RegistryOf(repoLock, NoEnvs)
                  ELSE IF id = local_registry(1) THEN RegistryOf(localLock, NoEnvs)
                  ELSE EmptyRegistry]
    /\ entry = [p \in Procs |-> registry]

\* install() is called by p on the toolkit the other caller installs, if one does.
InstallSame(p) ==
    /\ Install(p)
    /\ \A q \in Procs \ {p} : self[q] # << >> => self'[p] = self[q]

NextConcurrent ==
    \E p \in Procs :
        \/ InstallSame(p)
        \/ FindRepoLock(p)
        \/ FindLocalLock(p)
        \/ CopyLock(p)
        \/ Lock(p)
        \/ PushLocalLock(p)
        \/ PushRepoLock(p)
        \/ FindLocalToolkit(p)
        \/ FindRepoLockAgain(p)
        \/ StageLock(p)
        \/ CondaInstall(p)
        \/ PushToolkit(p)

SpecConcurrent == InitConcurrent /\ [][NextConcurrent]_vars

\* C19: in every interleaving of two runs of install for the same toolkit, each
\* run invokes the Resolver at most once, no run is at the materialize step
\* (toolkit.py:282-295) while the shared registry lacks the lock, and every run
\* that has returned leaves the lock in the shared registry and the environment
\* artifact in its own local registry.
C19_ConcurrentRunsAgree ==
    \A p \in Procs :
        /\ Len(resolver_calls[p]) <= 1
        /\ (pc[p] \in {"l282", "l285", "l293"} =>
                registry[repo_registry][LockKey(p)] # << >>)
        /\ (pc[p] = "done" =>
                /\ registry[repo_registry][LockKey(p)] # << >>
                /\ registry[local_registry(p)][EnvKey(p)] # << >>)

\* Both runs missed the lock, both invoked the Resolver and pushed, the later
\* push replacing the earlier, and both returned.
C19_Witness ==
    /\ \A p \in Procs : pc[p] = "done" /\ Len(resolver_calls[p]) = 1
    /\ self[1] = self[2]
    /\ \A p \in Procs :
          \E i \in 1..Len(ops[p]) :
              /\ ops[p][i].op = "push"
              /\ ops[p][i].to = repo_registry

=============================================================================
